---- MODULE Spec2Model ----
(***************************************************************************)
(* DropSync: the reconciliation engine EbaySyncEngine (src/sync_engine.py). *)
(* One run of run_sync is a sequential state machine:                       *)
(*   start -> fetching -> diffing -> updating -> finishing -> returned      *)
(* with the except-branch of run_sync leading to "returned" (failed) from   *)
(* the download and from every listing page.  Remote answers (the feed,     *)
(* GetSellerList pages, ReviseInventoryStatus answers) are inputs.          *)
(***************************************************************************)
EXTENDS Integers, Sequences, FiniteSets, TLC

(***************************************************************************)
(* Bounds of the model and constants of the program.                        *)
(***************************************************************************)
\* self.batch_size = 4
batch_size == 4
\* if page > 500: break
PageLimit == 500

\* rows of a supplier feed
MaxRows == 2
\* listings the remote catalogue holds in the full-domain specification
MaxListings == 2
\* pages a well-behaved server spreads them over
MaxPagesServed == 2
\* listings of the one-listing catalogue served by the never-ending server
MaxLeanListings == 5
\* pending updates handed to update_ebay_quantities directly
MaxUpdates == 9

\* User.max_accounts, User.max_feeds: the limits of the plan a user signs up with
max_accounts == 1
max_feeds == 2
\* requests of one user the web application handles at the same time
MaxHandlers == 3

(***************************************************************************)
(* State of one run.                                                        *)
(***************************************************************************)
VARIABLES
    pc,              \* position in run_sync
    supplier_stock,  \* run_sync: supplier_stock
    all_items,       \* fetch_ebay_listings: all_items (ebay_listings once returned)
    page,            \* fetch_ebay_listings: page
    last_page,       \* <<>> or <<[page, total_pages, has_more]>> of the last page parsed
    page_requests,   \* number of GetSellerList requests sent
    last_answer,     \* <<>> or <<[page, exc, Ack]>> of the last GetSellerList answer
    updates_needed,  \* run_sync: updates_needed
    unmatched_skus,  \* run_sync: unmatched_skus
    i,               \* update_ebay_quantities: i
    total_success,   \* update_ebay_quantities: total_success
    total_failed,    \* update_ebay_quantities: total_failed
    requests,        \* the batches sent as ReviseInventoryStatus requests, in order
    outcomes,        \* the answers to them, in order
    items_updated,   \* run_sync: items_updated
    items_failed,    \* run_sync: items_failed
    returned,        \* the result records run_sync has returned
    given,           \* <<>> or <<in>>: the feed, page answer or diff input when fixed beforehand
    engine,          \* the attributes of self: [config, batch_size]
    other,           \* <<>> or <<run>>: the parked run of a second thread on self
    db,              \* [accounts, feeds]: the active rows of one user that are committed
    handlers         \* the requests of that user in flight: [kind, at, existing_count]

vars == <<pc, supplier_stock, all_items, page, last_page, page_requests,
          last_answer, updates_needed, unmatched_skus, i, total_success,
          total_failed, requests, outcomes, items_updated, items_failed,
          returned, given, engine, other, db, handlers>>

\* the locals of a run
run_vars == <<pc, supplier_stock, all_items, page, last_page, page_requests,
              last_answer, updates_needed, unmatched_skus, i, total_success,
              total_failed, requests, outcomes, items_updated, items_failed,
              returned>>

fetch_vars  == <<all_items, page, last_page, page_requests, last_answer>>
diff_vars   == <<updates_needed, unmatched_skus>>
update_vars == <<i, total_success, total_failed, requests, outcomes>>
count_vars  == <<items_updated, items_failed>>
\* what no statement of a run assigns: its arguments, the other thread's locals
frame_vars  == <<given, other, db, handlers>>

(***************************************************************************)
(* Python values.                                                           *)
(***************************************************************************)
\* Python's None (a missing cell, error_message of a completed run)
None == "<None>"
\* "no exception was raised"
NoExc == "<no exception>"

\* The exception classes the remote calls and the parsers raise; every one
\* of them derives from Exception.
ExceptionClasses ==
    {"HTTPError", "ConnectionError", "ParseError", "RuntimeError",
     "ValueError", "TypeError", "AttributeError", "OverflowError"}

\* "except Exception" catches only a narrower class
CatchesRuntimeErrorOnly(exc) == exc = "RuntimeError"

\* except Exception as e: every class above is caught
Catches(exc) == exc \in ExceptionClasses

(***************************************************************************)
(* Strings: str.strip(), str.lower(), int(), int(float()) on the cells the  *)
(* feeds of the model hold.                                                 *)
(***************************************************************************)
strip(s) ==
    CASE s = " A " -> "A"
      [] s = " B " -> "B"
      [] s = "  "  -> ""
      [] s = " 3 " -> "3"
      [] OTHER     -> s

lower(s) ==
    CASE s = "Available" -> "available"
      [] s = "YES"       -> "yes"
      [] s = "True"      -> "true"
      [] OTHER           -> s

\* int(s): [exc, val]
ParseInt(s) ==
    CASE s = "5"  -> [exc |-> NoExc, val |-> 5]
      [] s = "3"  -> [exc |-> NoExc, val |-> 3]
      [] s = "1"  -> [exc |-> NoExc, val |-> 1]
      [] s = "0"  -> [exc |-> NoExc, val |-> 0]
      [] s = "-1" -> [exc |-> NoExc, val |-> -1]
      [] OTHER    -> [exc |-> "ValueError", val |-> 0]

\* int(float(s)): float() accepts decimals and "inf"; int() truncates toward
\* zero and raises OverflowError on an infinity
ParseFloatInt(s) ==
    CASE s = "2.7" -> [exc |-> NoExc, val |-> 2]
      [] s = "0.5" -> [exc |-> NoExc, val |-> 0]
      [] s = "inf" -> [exc |-> "OverflowError", val |-> 0]
      [] OTHER     -> ParseInt(s)

\* dict.get(key, default)
Get(d, key, default) == IF key \in DOMAIN d THEN d[key] ELSE default

\* x.strip() of a cell: a None cell has no strip()
StripCell(c) ==
    IF c = None THEN [exc |-> "AttributeError", val |-> ""]
    ELSE [exc |-> NoExc, val |-> strip(c)]

(***************************************************************************)
(* download_supplier_stock: the rows of the feed, in file order.            *)
(***************************************************************************)
\* stock[sku] = v
Put(stock, sku, v) == (sku :> v) @@ stock

\* the quantity of the feed is kept, negative ones as 0
QuantityKept(qty) == IF qty > 0 THEN qty ELSE 0

\* stock[sku] = 1 if qty > 0 else 0
Binary(qty) == IF qty > 0 THEN 1 ELSE 0

\* one row of the azuregreen loop: [exc, stock]
AzureGreenRow(stock, row) ==
    LET sku       == StripCell(Get(row, "NUMBER", ""))
        qty_raw   == StripCell(Get(row, "UNITS", "0"))
        cant_sell == StripCell(Get(row, "CANTSELL", "0"))
        parsed    == ParseFloatInt(qty_raw.val)
        qty0      == IF parsed.exc = "ValueError" THEN 0 ELSE parsed.val
        qty       == IF cant_sell.val = "1" THEN 0 ELSE qty0
    IN  IF sku.exc # NoExc THEN [exc |-> sku.exc, stock |-> stock]
        ELSE IF qty_raw.exc # NoExc THEN [exc |-> qty_raw.exc, stock |-> stock]
        ELSE IF cant_sell.exc # NoExc THEN [exc |-> cant_sell.exc, stock |-> stock]
        ELSE IF sku.val = "" THEN [exc |-> NoExc, stock |-> stock]
        ELSE IF parsed.exc \notin {NoExc, "ValueError"}
             THEN [exc |-> parsed.exc, stock |-> stock]
        ELSE [exc |-> NoExc, stock |-> Put(stock, sku.val, Binary(qty))]

\* one row of the diecast loop
DiecastRow(stock, row) ==
    LET sku     == StripCell(Get(row, "Product ID", ""))
        qty_raw == StripCell(Get(row, "Product Visible", "0"))
        parsed  == ParseInt(qty_raw.val)
        qty     == IF parsed.exc = NoExc THEN parsed.val
                   ELSE IF lower(qty_raw.val) \in {"yes", "true", "1", "available"}
                        THEN 1 ELSE 0
    IN  IF sku.exc # NoExc THEN [exc |-> sku.exc, stock |-> stock]
        ELSE IF qty_raw.exc # NoExc THEN [exc |-> qty_raw.exc, stock |-> stock]
        ELSE IF sku.val = "" THEN [exc |-> NoExc, stock |-> stock]
        ELSE [exc |-> NoExc, stock |-> Put(stock, sku.val, Binary(qty))]

\* one row of the custom loop
CustomRow(stock, row, column_mapping) ==
    LET sku     == StripCell(Get(row, Get(column_mapping, "sku_column", "SKU"), ""))
        qty_raw == StripCell(Get(row, Get(column_mapping, "quantity_column", "Quantity"), "0"))
        parsed  == ParseFloatInt(qty_raw.val)
        qty     == IF parsed.exc = "ValueError" THEN 0 ELSE parsed.val
    IN  IF sku.exc # NoExc THEN [exc |-> sku.exc, stock |-> stock]
        ELSE IF qty_raw.exc # NoExc THEN [exc |-> qty_raw.exc, stock |-> stock]
        ELSE IF sku.val = "" THEN [exc |-> NoExc, stock |-> stock]
        ELSE IF parsed.exc \notin {NoExc, "ValueError"}
             THEN [exc |-> parsed.exc, stock |-> stock]
        ELSE [exc |-> NoExc, stock |-> Put(stock, sku.val, Binary(qty))]

\* An optional dict argument is <<>> for None and <<d>> for the dict d;
\* "elif ... and column_mapping" takes a dict that is neither None nor empty.
Truthy(column_mapping) ==
    column_mapping # <<>> /\ DOMAIN column_mapping[1] # {}

\* the branch of the feed type; a custom feed is read only with a non-empty
\* mapping; any other case reads no row
FeedRow(stock, row, ftype, column_mapping) ==
    IF ftype = "azuregreen" THEN AzureGreenRow(stock, row)
    ELSE IF ftype = "diecast" THEN DiecastRow(stock, row)
    ELSE IF ftype = "custom" /\ Truthy(column_mapping)
         THEN CustomRow(stock, row, column_mapping[1])
    ELSE [exc |-> NoExc, stock |-> stock]

RECURSIVE FeedRows(_, _, _, _, _)
FeedRows(stock, rows, k, ftype, column_mapping) ==
    IF k > Len(rows) THEN [exc |-> NoExc, stock |-> stock]
    ELSE LET r == FeedRow(stock, rows[k], ftype, column_mapping)
         IN  IF r.exc # NoExc THEN r
             ELSE FeedRows(r.stock, rows, k + 1, ftype, column_mapping)

\* the empty dict
EmptyMap == [x \in {} |-> 0]

\* a normalizer that rejects a feed type it does not know
download_supplier_stock_strict(resp, ftype, column_mapping) ==
    IF resp.exc # NoExc THEN [exc |-> resp.exc, stock |-> EmptyMap]
    ELSE IF ftype \notin {"azuregreen", "diecast", "custom"}
    THEN [exc |-> "ValueError", stock |-> EmptyMap]
    ELSE FeedRows(EmptyMap, resp.rows, 1, ftype, column_mapping)

\* download_supplier_stock(feed_url, feed_type, column_mapping) on the answer
\* of the feed's server: [exc, stock]
download_supplier_stock(resp, ftype, column_mapping) ==
    IF resp.exc # NoExc THEN [exc |-> resp.exc, stock |-> EmptyMap]
    ELSE FeedRows(EmptyMap, resp.rows, 1, ftype, column_mapping)

(***************************************************************************)
(* _fetch_listings_page: one GetSellerList answer.                          *)
(* An answer is [exc, Ack, Items, PaginationResult, HasMoreItems]: exc is   *)
(* what requests.post / raise_for_status / ET.fromstring / int() raise on   *)
(* it, PaginationResult is <<>> when the element is missing and <<n>> with  *)
(* TotalNumberOfPages n otherwise.  An item is a record of the elements it  *)
(* carries (a missing element is a missing field).                          *)
(***************************************************************************)
Max(a, b) == IF a >= b THEN a ELSE b
Min(a, b) == IF a <= b THEN a ELSE b

\* the available quantity is the plain difference
ParseItemUnclamped(item) ==
    LET sku    == strip(Get(item, "SKU", ""))
        status == Get(item, "ListingStatus", "")
    IN  IF status # "Active" THEN <<>>
        ELSE IF "ItemID" \in DOMAIN item /\ sku # ""
             THEN << [item_id |-> item.ItemID, sku |-> sku,
                      current_qty |-> Get(item, "Quantity", 0)
                                      - Get(item, "QuantitySold", 0)] >>
        ELSE <<>>

\* the dict of one Item, as a sequence of zero or one listing
ParseItem(item) ==
    LET sku           == strip(Get(item, "SKU", ""))
        status        == Get(item, "ListingStatus", "")
        qty_total     == Get(item, "Quantity", 0)
        qty_sold      == Get(item, "QuantitySold", 0)
        qty_available == Max(0, qty_total - qty_sold)
    IN  IF status # "Active" THEN <<>>
        ELSE IF "ItemID" \in DOMAIN item /\ sku # ""
             THEN << [item_id |-> item.ItemID, sku |-> sku,
                      current_qty |-> qty_available] >>
        ELSE <<>>

RECURSIVE ParseItems(_)
ParseItems(raw) ==
    IF raw = <<>> THEN <<>> ELSE ParseItem(Head(raw)) \o ParseItems(Tail(raw))

\* only "Success" is taken for an accepted call
AckSuccessOnly(ack) == ack = "Success"

\* ack not in ("Success", "Warning")
AckAccepted(ack) == ack \in {"Success", "Warning"}

\* a page that cannot be had is taken for an empty last page
fetch_listings_page_lenient(resp) ==
    IF resp.exc # NoExc \/ ~AckAccepted(resp.Ack)
    THEN [exc |-> NoExc, items |-> <<>>, total_pages |-> 1, has_more |-> FALSE]
    ELSE [exc |-> NoExc,
          items |-> ParseItems(resp.Items),
          total_pages |-> IF resp.PaginationResult = <<>> THEN 1
                          ELSE resp.PaginationResult[1],
          has_more |-> resp.HasMoreItems = "true"]

\* _fetch_listings_page(page, ...) on the server's answer:
\* [exc, items, total_pages, has_more]
fetch_listings_page(resp) ==
    IF resp.exc # NoExc
    THEN [exc |-> resp.exc, items |-> <<>>, total_pages |-> 1, has_more |-> FALSE]
    ELSE IF ~AckAccepted(resp.Ack)
    THEN [exc |-> "RuntimeError", items |-> <<>>, total_pages |-> 1, has_more |-> FALSE]
    ELSE [exc |-> NoExc,
          items |-> ParseItems(resp.Items),
          total_pages |-> IF resp.PaginationResult = <<>> THEN 1
                          ELSE resp.PaginationResult[1],
          has_more |-> resp.HasMoreItems = "true"]

\* "or" for "and"
LastPageEither(p, total_pages, has_more) == p >= total_pages \/ ~has_more

\* if page >= total_pages and not has_more: break
LastPage(p, total_pages, has_more) == p >= total_pages /\ ~has_more

\* the ceiling tested one page late
CeilingReachedLate(p) == p > PageLimit + 1

\* page += 1; if page > 500: break   (p is the incremented page)
CeilingReached(p) == p > PageLimit

(***************************************************************************)
(* The diff loop of run_sync (step 3).                                      *)
(***************************************************************************)
\* the update carries the change of the quantity, not the quantity
PendingUpdateDelta(listing, new_qty) ==
    [item_id |-> listing.item_id, sku |-> listing.sku,
     old_qty |-> listing.current_qty, new_qty |-> new_qty - listing.current_qty]

\* the dict appended to updates_needed
PendingUpdate(listing, new_qty) ==
    [item_id |-> listing.item_id, sku |-> listing.sku,
     old_qty |-> listing.current_qty, new_qty |-> new_qty]

\* supplier_stock.get(sku, 0): an unmatched listing is set to 0
DiffListingDefaultZero(d, listing, stock) ==
    LET new_qty == IF listing.sku \in DOMAIN stock THEN stock[listing.sku] ELSE 0
    IN  IF new_qty # listing.current_qty
        THEN [updates |-> Append(d.updates, PendingUpdate(listing, new_qty)),
              unmatched |-> IF listing.sku \in DOMAIN stock THEN d.unmatched
                            ELSE Append(d.unmatched, listing.sku)]
        ELSE [updates |-> d.updates,
              unmatched |-> IF listing.sku \in DOMAIN stock THEN d.unmatched
                            ELSE Append(d.unmatched, listing.sku)]

\* "<" for "!=": only the listings to take out of stock are updated
DiffListingLowerOnly(d, listing, stock) ==
    IF listing.sku \notin DOMAIN stock
    THEN [updates |-> d.updates, unmatched |-> Append(d.unmatched, listing.sku)]
    ELSE IF stock[listing.sku] < listing.current_qty
    THEN [updates |-> Append(d.updates, PendingUpdate(listing, stock[listing.sku])),
          unmatched |-> d.unmatched]
    ELSE d

\* every matched listing is queued, whether its quantity differs or not
DiffListingAlways(d, listing, stock) ==
    IF listing.sku \notin DOMAIN stock
    THEN [updates |-> d.updates, unmatched |-> Append(d.unmatched, listing.sku)]
    ELSE [updates |-> Append(d.updates, PendingUpdate(listing, stock[listing.sku])),
          unmatched |-> d.unmatched]

\* a diff that remembers across runs: what the run before has queued is not
\* queued again
DiffListingSeen(d, listing, stock) ==
    IF listing.sku \notin DOMAIN stock
    THEN [updates |-> d.updates, unmatched |-> Append(d.unmatched, listing.sku)]
    ELSE IF /\ stock[listing.sku] # listing.current_qty
            /\ ~(/\ other # <<>>
                 /\ \E k \in 1..Len(other[1].updates_needed) :
                       other[1].updates_needed[k] =
                           PendingUpdate(listing, stock[listing.sku]))
    THEN [updates |-> Append(d.updates, PendingUpdate(listing, stock[listing.sku])),
          unmatched |-> d.unmatched]
    ELSE d

\* one iteration of "for listing in ebay_listings": d is [updates, unmatched]
DiffListing(d, listing, stock) ==
    IF listing.sku \notin DOMAIN stock
    THEN [updates |-> d.updates, unmatched |-> Append(d.unmatched, listing.sku)]
    ELSE IF stock[listing.sku] # listing.current_qty
    THEN [updates |-> Append(d.updates, PendingUpdate(listing, stock[listing.sku])),
          unmatched |-> d.unmatched]
    ELSE d

RECURSIVE DiffLoop(_, _, _, _)
DiffLoop(d, listings, k, stock) ==
    IF k > Len(listings) THEN d
    ELSE DiffLoop(DiffListing(d, listings[k], stock), listings, k + 1, stock)

Diff(listings, stock) ==
    DiffLoop([updates |-> <<>>, unmatched |-> <<>>], listings, 1, stock)

(***************************************************************************)
(* update_ebay_quantities and _update_batch.                                *)
(* A ReviseInventoryStatus answer is [exc, Ack, InventoryStatus]: the       *)
(* number of InventoryStatus elements it carries.                           *)
(***************************************************************************)
\* a slice that takes the element at hi too
SliceInclusive(updates, lo, hi) == SubSeq(updates, lo + 1, Min(hi + 1, Len(updates)))

\* updates[i : i + self.batch_size]  (i counts from 0)
Slice(updates, lo, hi) == SubSeq(updates, lo + 1, Min(hi, Len(updates)))

\* the InventoryStatus entries are counted whatever the Ack
update_batch_any_ack(batch, resp) ==
    IF resp.exc # NoExc THEN [exc |-> resp.exc, val |-> 0]
    ELSE [exc |-> NoExc, val |-> resp.InventoryStatus]

\* _update_batch(batch) on the server's answer: [exc, val]
update_batch(batch, resp) ==
    IF resp.exc # NoExc THEN [exc |-> resp.exc, val |-> 0]
    ELSE IF resp.Ack \in {"Success", "Warning"}
    THEN [exc |-> NoExc, val |-> resp.InventoryStatus]
    ELSE [exc |-> NoExc, val |-> 0]

\* the shortfall of a batch is not counted
FailedAfterIgnored(failed, success, batch) == failed

\* total_failed after the try-block of one batch that did not raise
FailedAfter(failed, success, batch) ==
    IF success < Len(batch) THEN failed + (Len(batch) - success)
    ELSE failed

\* total_failed += len(batch) in the except-branch of one batch
FailedOnRaiseOne(failed, batch) == failed + 1

FailedOnRaise(failed, batch) == failed + Len(batch)

\* the batch loop without its try: nothing is caught there
BatchCatchesNothing(exc) == FALSE

\* "except Exception" of the batch loop
BatchCatches(exc) == Catches(exc)

\* "except Exception" of run_sync
RunSyncCatches(exc) == Catches(exc)

(***************************************************************************)
(* The result records of run_sync.                                          *)
(***************************************************************************)
\* the listings that were out of stock before the run are counted
CountZeroOld(updates) ==
    Cardinality({k \in 1..Len(updates) : updates[k].old_qty = 0})

RECURSIVE CountZero(_)
\* sum(1 for u in updates_needed if u["new_qty"] == 0)
CountZero(updates) ==
    IF updates = <<>> THEN 0
    ELSE (IF Head(updates).new_qty = 0 THEN 1 ELSE 0) + CountZero(Tail(updates))

CompletedResult(listings, updated, failed, updates, unmatched) ==
    [status |-> "completed",
     total_listings_checked |-> Len(listings),
     items_updated |-> updated,
     items_failed |-> failed,
     items_out_of_stock |-> CountZero(updates),
     unmatched_skus |-> Len(unmatched),
     error_message |-> None]

\* the failed record reporting what was fetched before the failure
FailedResultPartial(exc) ==
    [status |-> "failed",
     total_listings_checked |-> Len(all_items),
     items_updated |-> 0,
     items_failed |-> 0,
     items_out_of_stock |-> 0,
     unmatched_skus |-> 0,
     error_message |-> exc]

\* str(e) of the exception caught: its class stands for its text
FailedResult(exc) ==
    [status |-> "failed",
     total_listings_checked |-> 0,
     items_updated |-> 0,
     items_failed |-> 0,
     items_out_of_stock |-> 0,
     unmatched_skus |-> 0,
     error_message |-> exc]

(***************************************************************************)
(* The engine object.  run_sync runs in the thread pool of the web          *)
(* application; two runs may share one engine.                              *)
(***************************************************************************)
\* __init__: self.config = config; self.batch_size = 4
EbaySyncEngine == [config |-> "config", batch_size |-> batch_size]

\* a run that tunes the batch size of the engine as it goes
SelfWithTunedBatch(self) == [self EXCEPT !.batch_size = Max(1, self.batch_size - 1)]

\* self after a step of a run: no statement of run_sync or of the methods it
\* calls assigns an attribute of self
SelfAfterStep(self) == self

\* sequences over S of length at most n
BoundedSeqs(S, n) == UNION {[1..k -> S] : k \in 0..n}

(***************************************************************************)
(* Inputs: the feeds and the remote answers of the full-domain              *)
(* specification.                                                           *)
(***************************************************************************)
AzureGreenRows ==
    {[NUMBER |-> n, UNITS |-> u, CANTSELL |-> c] :
        n \in {"A", " B ", ""}, u \in {"5", "0"}, c \in {"0", "1"}}
    \cup {[NUMBER |-> "A", UNITS |-> "abc", CANTSELL |-> "0"],
          [NUMBER |-> "A", UNITS |-> "2.7", CANTSELL |-> "0", DISCONT |-> "1"],
          [NUMBER |-> "B", UNITS |-> "inf", CANTSELL |-> "0"],
          [NUMBER |-> "B", UNITS |-> None, CANTSELL |-> None],
          [NUMBER |-> "  ", UNITS |-> None, CANTSELL |-> None]}

DiecastRows ==
    {("Product ID" :> n) @@ ("Product Visible" :> v) :
        n \in {"A", " B ", "  "}, v \in {"1", "0", "Available", "abc"}}
    \cup {("Product ID" :> "  ") @@ ("Product Visible" :> None)}

CustomRows ==
    {[SKU |-> n, Quantity |-> q] : n \in {"A", "B"}, q \in {"3", "0"}}
    \cup {[Part |-> n, Qty |-> q] : n \in {"A", "B"}, q \in {" 3 ", "-1"}}

ColumnMappings ==
    {<<>>, <<EmptyMap>>,
     <<[sku_column |-> "Part", quantity_column |-> "Qty"]>>,
     <<[sku_column |-> "Part"]>>,
     <<[sku_column |-> None, quantity_column |-> None]>>}

\* what requests.get / raise_for_status raise on the feed URL
FeedFailures == {"ConnectionError", "HTTPError"}

\* the arguments of run_sync with the answer of the feed's server
FeedInput(exc, rows, ftype, cm) ==
    [resp |-> [exc |-> exc, rows |-> rows], feed_type |-> ftype, column_mapping |-> cm]

FeedInputs ==
    {FeedInput(e, <<>>, "azuregreen", <<>>) : e \in FeedFailures}
    \cup {FeedInput(NoExc, rows, "azuregreen", <<>>) :
            rows \in BoundedSeqs(AzureGreenRows, MaxRows)}
    \cup {FeedInput(NoExc, rows, "diecast", <<>>) :
            rows \in BoundedSeqs(DiecastRows, MaxRows)}
    \cup {FeedInput(NoExc, rows, "custom", cm) :
            rows \in BoundedSeqs(CustomRows, MaxRows), cm \in ColumnMappings}
    \cup {FeedInput(NoExc, rows, "other", <<>>) :
            rows \in BoundedSeqs(CustomRows, 1)}

\* the Item elements a GetSellerList answer may carry: three listings with
\* available quantity 0 (no Quantity element), 1 and 2, an oversold one, and
\* items the parser drops (not Active, no ItemID, blank SKU)
RawItems ==
    {[ItemID |-> x[1], SKU |-> x[2], ListingStatus |-> "Active"] :
        x \in {<<1, "A">>, <<2, "A">>, <<2, " B ">>}}
    \cup {[ItemID |-> x[1], SKU |-> x[2], ListingStatus |-> "Active",
           Quantity |-> 2, QuantitySold |-> sold] :
        x \in {<<1, "A">>, <<2, "A">>, <<2, " B ">>}, sold \in {0, 1}}
    \cup {[ItemID |-> 1, SKU |-> "A", ListingStatus |-> "Active",
           Quantity |-> 1, QuantitySold |-> 2],
          [ItemID |-> 1, SKU |-> "A", ListingStatus |-> "Completed",
           Quantity |-> 2, QuantitySold |-> 0],
          [SKU |-> "A", ListingStatus |-> "Active", Quantity |-> 2],
          [ItemID |-> 2, SKU |-> "  ", ListingStatus |-> "Active", Quantity |-> 2]}

\* what requests.post / raise_for_status / ET.fromstring / int() raise
RemoteFailures == {"ConnectionError", "ParseError"}

PageAnswer(exc, ack, items, pagination, more) ==
    [exc |-> exc, Ack |-> ack, Items |-> items,
     PaginationResult |-> pagination, HasMoreItems |-> more]

\* Ack, PaginationResult and HasMoreItems of the accepted answers to the
\* request for page p: the last page by page count, by a missing
\* PaginationResult or by a page count of 0, and, while the server has pages
\* left, a further page announced by the page count or by HasMoreItems.
PageHeaders(p) ==
    {<<"Success", <<p>>, "false">>, <<"Warning", <<>>, None>>,
     <<"Success", <<0>>, None>>}
    \cup (IF p < MaxPagesServed
          THEN {<<"Success", <<p + 1>>, "false">>, <<"Warning", <<p>>, "true">>}
          ELSE {})

\* The answers to the request for page p when n listings were fetched so
\* far: a server that holds at most MaxListings items on at most
\* MaxPagesServed pages.
PageAnswers(p, n) ==
    {PageAnswer(e, "", <<>>, <<>>, None) : e \in RemoteFailures}
    \cup {PageAnswer(NoExc, a, <<>>, <<>>, None) : a \in {"Failure", ""}}
    \cup {PageAnswer(NoExc, h[1], items, h[2], h[3]) :
            h \in PageHeaders(p),
            items \in BoundedSeqs(RawItems, MaxListings - n)}

UpdateAnswer(exc, ack, k) == [exc |-> exc, Ack |-> ack, InventoryStatus |-> k]

\* The answers to a ReviseInventoryStatus request of b items: a failure, a
\* rejected call, or an accepted call with 0 .. b+1 InventoryStatus entries.
UpdateAnswers(b) ==
    {UpdateAnswer(e, "", 0) : e \in RemoteFailures}
    \cup {UpdateAnswer(NoExc, a, k) : a \in {"Failure", ""}, k \in {0, b}}
    \cup {UpdateAnswer(NoExc, a, k) : a \in {"Success", "Warning"}, k \in 0..(b + 1)}

(***************************************************************************)
(* run_sync.                                                                *)
(***************************************************************************)
\* the web application holds no row and handles no request
WebIdle ==
    /\ db = [accounts |-> 0, feeds |-> 0]
    /\ handlers = <<>>

\* the locals of a run that is about to enter run_sync
RunStart ==
    /\ pc = "start"
    /\ supplier_stock = EmptyMap
    /\ all_items = <<>>
    /\ page = 1
    /\ last_page = <<>>
    /\ page_requests = 0
    /\ last_answer = <<>>
    /\ updates_needed = <<>>
    /\ unmatched_skus = <<>>
    /\ i = 0
    /\ total_success = 0
    /\ total_failed = 0
    /\ requests = <<>>
    /\ outcomes = <<>>
    /\ items_updated = 0
    /\ items_failed = 0
    /\ returned = <<>>

\* one run on a fresh engine; the feed and the answers are left open
Init ==
    /\ RunStart
    /\ given = <<>>
    /\ engine = EbaySyncEngine
    /\ WebIdle
    /\ other = <<>>

\* An exception reaches the try-block of run_sync: the except-branch returns
\* the failed record; an exception it does not catch leaves run_sync.
Raise(exc) ==
    IF RunSyncCatches(exc)
    THEN /\ pc' = "returned"
         /\ returned' = Append(returned, FailedResult(exc))
    ELSE /\ pc' = "escaped"
         /\ UNCHANGED returned

\* 1. supplier_stock = self.download_supplier_stock(...)
Download(Inputs) ==
    /\ pc = "start"
    /\ \E in \in Inputs :
         LET r == download_supplier_stock(in.resp, in.feed_type, in.column_mapping)
         IN  IF r.exc # NoExc
             THEN /\ Raise(r.exc)
                  /\ UNCHANGED supplier_stock
             ELSE /\ supplier_stock' = r.stock
                  /\ pc' = "fetching"
                  /\ UNCHANGED returned
    /\ engine' = SelfAfterStep(engine)
    /\ UNCHANGED <<fetch_vars, diff_vars, update_vars, count_vars, frame_vars>>

\* 2. one iteration of the while-loop of fetch_ebay_listings
FetchPage(Answers) ==
    /\ pc = "fetching"
    /\ page_requests' = page_requests + 1
    /\ \E resp \in Answers :
         LET r == fetch_listings_page(resp)
         IN  /\ last_answer' = << [page |-> page, exc |-> resp.exc, Ack |-> resp.Ack] >>
             /\ IF r.exc # NoExc
                THEN /\ Raise(r.exc)
                     /\ UNCHANGED <<all_items, page, last_page>>
                ELSE /\ all_items' = all_items \o r.items
                     /\ last_page' = << [page |-> page, total_pages |-> r.total_pages,
                                         has_more |-> r.has_more] >>
                     /\ UNCHANGED returned
                     /\ IF LastPage(page, r.total_pages, r.has_more)
                        THEN /\ page' = page
                             /\ pc' = "diffing"
                        ELSE /\ page' = page + 1
                             /\ pc' = IF CeilingReached(page + 1) THEN "diffing"
                                      ELSE "fetching"
    /\ engine' = SelfAfterStep(engine)
    /\ UNCHANGED <<supplier_stock, diff_vars, update_vars, count_vars, frame_vars>>

\* 3. the diff loop; the locals of fetch_ebay_listings are gone.
\*    "if updates_needed:" skips the updater on an empty list.
DiffStep ==
    /\ pc = "diffing"
    /\ LET d == Diff(all_items, supplier_stock)
       IN  /\ updates_needed' = d.updates
           /\ unmatched_skus' = d.unmatched
           /\ pc' = IF d.updates # <<>> THEN "updating" ELSE "finishing"
    /\ page' = 1
    /\ last_page' = <<>>
    /\ last_answer' = <<>>
    /\ engine' = SelfAfterStep(engine)
    /\ UNCHANGED <<supplier_stock, all_items, page_requests, update_vars,
                   count_vars, returned, frame_vars>>

\* batch = updates[i : i + self.batch_size]
CurrentBatch == Slice(updates_needed, i, i + engine.batch_size)

\* 4. one iteration of the for-loop of update_ebay_quantities
UpdateBatch(Answers) ==
    /\ pc = "updating"
    /\ i < Len(updates_needed)
    /\ LET batch == CurrentBatch
       IN  \E resp \in Answers :
             LET r == update_batch(batch, resp)
             IN  /\ requests' = Append(requests, batch)
                 /\ outcomes' = Append(outcomes, resp)
                 /\ IF r.exc # NoExc
                    THEN IF BatchCatches(r.exc)
                         THEN /\ total_failed' = FailedOnRaise(total_failed, batch)
                              /\ i' = i + engine.batch_size
                              /\ UNCHANGED <<pc, total_success, returned>>
                         ELSE /\ Raise(r.exc)
                              /\ UNCHANGED <<i, total_success, total_failed>>
                    ELSE /\ total_success' = total_success + r.val
                         /\ total_failed' = FailedAfter(total_failed, r.val, batch)
                         /\ i' = i + engine.batch_size
                         /\ UNCHANGED <<pc, returned>>
    /\ engine' = SelfAfterStep(engine)
    /\ UNCHANGED <<supplier_stock, fetch_vars, diff_vars, count_vars, frame_vars>>

\* return total_success, total_failed;  items_updated, items_failed = ...
UpdateReturn ==
    /\ pc = "updating"
    /\ i >= Len(updates_needed)
    /\ items_updated' = total_success
    /\ items_failed' = total_failed
    /\ pc' = "finishing"
    /\ engine' = SelfAfterStep(engine)
    /\ UNCHANGED <<supplier_stock, fetch_vars, diff_vars, update_vars, returned,
                   frame_vars>>

\* return {"status": "completed", ...}
Complete ==
    /\ pc = "finishing"
    /\ returned' = Append(returned,
                          CompletedResult(all_items, items_updated, items_failed,
                                          updates_needed, unmatched_skus))
    /\ pc' = "returned"
    /\ engine' = SelfAfterStep(engine)
    /\ UNCHANGED <<supplier_stock, fetch_vars, diff_vars, update_vars, count_vars,
                   frame_vars>>

Next ==
    \/ Download(FeedInputs)
    \/ FetchPage(PageAnswers(page, Len(all_items)))
    \/ DiffStep
    \/ UpdateBatch(UpdateAnswers(Len(CurrentBatch)))
    \/ UpdateReturn
    \/ Complete

Spec == Init /\ [][Next]_vars

(***************************************************************************)
(* update_ebay_quantities called on a list of pending updates: the lists    *)
(* of 0 .. MaxUpdates updates of distinct items.                            *)
(***************************************************************************)
UpdatesOfLen(n) ==
    [k \in 1..n |-> [item_id |-> k, sku |-> "A", old_qty |-> 1 - (k % 2),
                     new_qty |-> k % 2]]

InitUpdater ==
    /\ pc = "updating"
    /\ supplier_stock = EmptyMap
    /\ all_items = <<>>
    /\ page = 1
    /\ last_page = <<>>
    /\ page_requests = 0
    /\ last_answer = <<>>
    /\ updates_needed \in {UpdatesOfLen(n) : n \in 0..MaxUpdates}
    /\ unmatched_skus = <<>>
    /\ i = 0
    /\ total_success = 0
    /\ total_failed = 0
    /\ requests = <<>>
    /\ outcomes = <<>>
    /\ items_updated = 0
    /\ items_failed = 0
    /\ returned = <<>>
    /\ given = <<>>
    /\ engine = EbaySyncEngine
    /\ WebIdle
    /\ other = <<>>

NextUpdater ==
    \/ UpdateBatch(UpdateAnswers(Len(CurrentBatch)))
    \/ UpdateReturn

SpecUpdater == InitUpdater /\ [][NextUpdater]_vars

(***************************************************************************)
(* run_sync against a server that never ends its listing: every page may    *)
(* report more items or a larger page count.  The catalogue holds copies of *)
(* one listing, the feed at most one row.                                   *)
(***************************************************************************)
LeanRows ==
    {[NUMBER |-> "A", UNITS |-> u, CANTSELL |-> "0"] : u \in {"5", "0"}}

LeanFeedInputs ==
    {FeedInput("ConnectionError", <<>>, "azuregreen", <<>>)}
    \cup {FeedInput(NoExc, rows, "azuregreen", <<>>) : rows \in BoundedSeqs(LeanRows, 1)}

LeanItem ==
    [ItemID |-> 1, SKU |-> "A", ListingStatus |-> "Active",
     Quantity |-> 2, QuantitySold |-> 1]

LeanPageAnswers(p, n) ==
    {PageAnswer("ConnectionError", "", <<>>, <<>>, None),
     PageAnswer(NoExc, "Failure", <<>>, <<>>, None)}
    \cup {PageAnswer(NoExc, "Success", [k \in 1..c |-> LeanItem], t, m) :
            c \in 0..Min(2, MaxLeanListings - n),
            t \in {<<>>, <<p>>, <<p + 1>>},
            m \in {"true", "false"}}

LeanUpdateAnswers(b) ==
    {UpdateAnswer("ConnectionError", "", 0), UpdateAnswer(NoExc, "Failure", b)}
    \cup {UpdateAnswer(NoExc, "Success", k) : k \in {0, b - 1, b}}

NextPaging ==
    \/ Download(LeanFeedInputs)
    \/ FetchPage(LeanPageAnswers(page, Len(all_items)))
    \/ DiffStep
    \/ UpdateBatch(LeanUpdateAnswers(Len(CurrentBatch)))
    \/ UpdateReturn
    \/ Complete

SpecPaging == Init /\ [][NextPaging]_vars

(***************************************************************************)
(* download_supplier_stock on a feed that is fixed beforehand: the feeds of *)
(* the full-domain specification and the one-row feeds over a wider set of  *)
(* cells.  A csv.DictReader row has a None cell where the line is shorter   *)
(* than the header, and no key for a column the header lacks.               *)
(***************************************************************************)
WideAzureGreenRows ==
    {[NUMBER |-> n, UNITS |-> u, CANTSELL |-> c] :
        n \in {"A", " B ", "", "  "},
        u \in {"5", "0", "-1", "2.7", "0.5", "abc", "", " 3 ", "inf"},
        c \in {"0", "1", ""}}
    \cup {[NUMBER |-> n, UNITS |-> u, CANTSELL |-> c, DISCONT |-> d] :
        n \in {"A", ""}, u \in {"5", "0", "abc"}, c \in {"0", "1"}, d \in {"0", "1"}}
    \cup {[NUMBER |-> n, CANTSELL |-> c] : n \in {"A", "  "}, c \in {"0", "1"}}
    \cup {[NUMBER |-> n, UNITS |-> u] : n \in {"A", "  "}, u \in {"5", "0"}}

WideDiecastRows ==
    {("Product ID" :> n) @@ ("Product Visible" :> v) :
        n \in {"A", " B ", "", "  "},
        v \in {"5", "1", "0", "-1", "2.7", "YES", "True", "Available", "abc", ""}}
    \cup {("Product ID" :> n) @@ ("Product Visible" :> None) : n \in {"A", ""}}

WideCustomRows ==
    {[SKU |-> n, Quantity |-> q] :
        n \in {"A", " B ", "", "  "}, q \in {"3", "0", "-1", "2.7", "abc", "inf"}}
    \cup {[Part |-> n, Qty |-> q] :
        n \in {"A", " B ", "", "  "}, q \in {"3", "0", "-1", "2.7", "abc", "inf"}}
    \cup {[Part |-> n, Quantity |-> q] : n \in {"A", "  "}, q \in {"3", "0"}}
    \cup {[SKU |-> "  ", Quantity |-> None], [Part |-> "", Qty |-> None]}

WideFeedInputs ==
    {FeedInput(NoExc, <<row>>, "azuregreen", <<>>) : row \in WideAzureGreenRows}
    \cup {FeedInput(NoExc, <<row>>, "diecast", <<>>) : row \in WideDiecastRows}
    \cup {FeedInput(NoExc, <<row>>, "custom", cm) :
            row \in WideCustomRows, cm \in ColumnMappings}

InitFeed ==
    /\ RunStart
    /\ given \in {<<in>> : in \in FeedInputs \cup WideFeedInputs}
    /\ engine = EbaySyncEngine
    /\ WebIdle
    /\ other = <<>>

NextFeed == Download({given[1]})

SpecFeed == InitFeed /\ [][NextFeed]_vars

(***************************************************************************)
(* fetch_ebay_listings against a one-page catalogue that is fixed           *)
(* beforehand: one item over a wider set of elements, or the items of the   *)
(* full-domain specification.                                               *)
(***************************************************************************)
\* an element that is missing, or present with one of the values
Element(name, values) == {EmptyMap} \cup {name :> v : v \in values}

WideRawItems ==
    {id @@ sku @@ status @@ total @@ sold :
        id     \in Element("ItemID", {1, 2}),
        sku    \in Element("SKU", {"A", " B ", "  "}),
        status \in Element("ListingStatus", {"Active", "Completed", "Ended"}),
        total  \in Element("Quantity", {0, 1, 3}),
        sold   \in Element("QuantitySold", {0, 1, 5})}

GivenPageAnswers ==
    {PageAnswer("ConnectionError", "", <<>>, <<>>, None),
     PageAnswer(NoExc, "Failure", <<>>, <<>>, None)}
    \cup {PageAnswer(NoExc, h[1], items, h[2], h[3]) :
            h \in {<<"Success", <<1>>, "false">>, <<"Warning", <<>>, None>>},
            items \in {<<item>> : item \in WideRawItems}
                      \cup BoundedSeqs(RawItems, MaxListings)}

InitPage ==
    /\ RunStart
    /\ given \in {<<resp>> : resp \in GivenPageAnswers}
    /\ engine = EbaySyncEngine
    /\ WebIdle
    /\ other = <<>>

NextPage ==
    \/ Download(LeanFeedInputs)
    \/ FetchPage({given[1]})

SpecPage == InitPage /\ [][NextPage]_vars

(***************************************************************************)
(* Two runs of run_sync on one engine, in two threads of the thread pool    *)
(* (main.py: background_tasks.add_task(run_sync_job, ...)).  The variables  *)
(* of a run are the locals of the thread that is scheduled; the locals of   *)
(* the other thread are parked in "other".  The threads share self only.    *)
(***************************************************************************)
\* the locals of the thread that is scheduled
ThisRun ==
    [pc |-> pc, supplier_stock |-> supplier_stock, all_items |-> all_items,
     page |-> page, last_page |-> last_page, page_requests |-> page_requests,
     last_answer |-> last_answer, updates_needed |-> updates_needed,
     unmatched_skus |-> unmatched_skus, i |-> i, total_success |-> total_success,
     total_failed |-> total_failed, requests |-> requests, outcomes |-> outcomes,
     items_updated |-> items_updated, items_failed |-> items_failed,
     returned |-> returned]

\* the interpreter switches to the other thread
Switch ==
    /\ other # <<>>
    /\ other' = <<ThisRun>>
    /\ pc' = other[1].pc
    /\ supplier_stock' = other[1].supplier_stock
    /\ all_items' = other[1].all_items
    /\ page' = other[1].page
    /\ last_page' = other[1].last_page
    /\ page_requests' = other[1].page_requests
    /\ last_answer' = other[1].last_answer
    /\ updates_needed' = other[1].updates_needed
    /\ unmatched_skus' = other[1].unmatched_skus
    /\ i' = other[1].i
    /\ total_success' = other[1].total_success
    /\ total_failed' = other[1].total_failed
    /\ requests' = other[1].requests
    /\ outcomes' = other[1].outcomes
    /\ items_updated' = other[1].items_updated
    /\ items_failed' = other[1].items_failed
    /\ returned' = other[1].returned
    /\ UNCHANGED <<given, engine, db, handlers>>

\* The answers to the request for page p when n listings were fetched so
\* far: a catalogue of copies of one listing on at most two pages.
PairPageAnswers(p, n) ==
    {PageAnswer("ConnectionError", "", <<>>, <<>>, None),
     PageAnswer(NoExc, "Failure", <<>>, <<>>, None)}
    \cup {PageAnswer(NoExc, "Success", [k \in 1..c |-> LeanItem], <<t>>, "false") :
            c \in 0..Min(3, MaxLeanListings - n),
            t \in IF p < 2 THEN {p, p + 1} ELSE {p}}

\* both threads are about to enter run_sync
InitPair ==
    /\ RunStart
    /\ given = <<>>
    /\ engine = EbaySyncEngine
    /\ WebIdle
    /\ other = <<ThisRun>>

NextPair ==
    \/ Download(LeanFeedInputs)
    \/ FetchPage(PairPageAnswers(page, Len(all_items)))
    \/ DiffStep
    \/ UpdateBatch(LeanUpdateAnswers(Len(CurrentBatch)))
    \/ UpdateReturn
    \/ Complete
    \/ Switch

SpecPair == InitPair /\ [][NextPair]_vars

(***************************************************************************)
(* The diff of a run and of the run after it, on a stock map and a          *)
(* one-page catalogue that are fixed beforehand.  The first run is at its   *)
(* diff; every batch it sends is accepted in full.  The next run gets the   *)
(* same stock map from the same feed and fetches the catalogue either as it *)
(* was or with every pending update of the first run applied.               *)
(***************************************************************************)
DiffListings ==
    {[item_id |-> id, sku |-> sku, current_qty |-> qty] :
        id \in {1, 2}, sku \in {"A", "B"}, qty \in 0..2}

StockMaps == UNION {[S -> {0, 1}] : S \in SUBSET {"A", "B"}}

DiffInputs ==
    {[listings |-> listings, stock |-> stock] :
        listings \in BoundedSeqs(DiffListings, MaxListings), stock \in StockMaps}

\* the catalogue once the remote system has set the quantity of every
\* listing an update was sent for (ItemID and Quantity of the request)
Applied(listings, updates) ==
    [k \in 1..Len(listings) |->
        LET sent == {u \in 1..Len(updates) :
                        /\ updates[u].item_id = listings[k].item_id
                        /\ updates[u].sku = listings[k].sku
                        /\ updates[u].old_qty = listings[k].current_qty}
        IN  IF sent = {} THEN listings[k]
            ELSE [listings[k] EXCEPT
                    !.current_qty = updates[CHOOSE u \in sent : TRUE].new_qty]]

InitDiff ==
    /\ pc = "diffing"
    /\ given \in {<<in>> : in \in DiffInputs}
    /\ supplier_stock = given[1].stock
    /\ all_items = given[1].listings
    /\ page = 1
    /\ last_page = << [page |-> 1, total_pages |-> 1, has_more |-> FALSE] >>
    /\ page_requests = 1
    /\ last_answer = << [page |-> 1, exc |-> NoExc, Ack |-> "Success"] >>
    /\ updates_needed = <<>>
    /\ unmatched_skus = <<>>
    /\ i = 0
    /\ total_success = 0
    /\ total_failed = 0
    /\ requests = <<>>
    /\ outcomes = <<>>
    /\ items_updated = 0
    /\ items_failed = 0
    /\ returned = <<>>
    /\ engine = EbaySyncEngine
    /\ WebIdle
    /\ other = <<>>

\* The run has returned; the next run_sync on the same engine and feed has
\* downloaded the same stock map, fetched the catalogue and is at its diff.
\* The run before is kept in "other".
NextRun(Catalogues) ==
    /\ pc = "returned"
    /\ other = <<>>
    /\ other' = <<ThisRun>>
    /\ all_items' \in Catalogues
    /\ pc' = "diffing"
    /\ updates_needed' = <<>>
    /\ unmatched_skus' = <<>>
    /\ i' = 0
    /\ total_success' = 0
    /\ total_failed' = 0
    /\ requests' = <<>>
    /\ outcomes' = <<>>
    /\ items_updated' = 0
    /\ items_failed' = 0
    /\ returned' = <<>>
    /\ page' = 1
    /\ last_page' = << [page |-> 1, total_pages |-> 1, has_more |-> FALSE] >>
    /\ page_requests' = 1
    /\ last_answer' = << [page |-> 1, exc |-> NoExc, Ack |-> "Success"] >>
    /\ engine' = SelfAfterStep(engine)
    /\ UNCHANGED <<supplier_stock, given, db, handlers>>

NextDiff ==
    \/ DiffStep
    \/ UpdateBatch({UpdateAnswer(NoExc, "Success", Len(CurrentBatch))})
    \/ UpdateReturn
    \/ Complete
    \/ NextRun({all_items, Applied(all_items, updates_needed)})

SpecDiff == InitDiff /\ [][NextDiff]_vars

(***************************************************************************)
(* run_sync called with a feed type that is fixed beforehand: one the       *)
(* normalizer knows, or one it does not know (the comparison is exact, so   *)
(* "AzureGreen" is not known), against the two-page catalogue of copies of  *)
(* one listing.                                                             *)
(***************************************************************************)
UnknownFeedTypes == {"other", "AzureGreen", ""}

UnknownTypeInputs ==
    {FeedInput("HTTPError", <<>>, "other", <<>>)}
    \cup {FeedInput(NoExc, rows, t, cm) :
            t \in UnknownFeedTypes,
            rows \in BoundedSeqs(LeanRows \cup {[SKU |-> "A", Quantity |-> "3"]}, 1),
            cm \in {<<>>, <<[sku_column |-> "SKU", quantity_column |-> "Quantity"]>>}}

InitTyped ==
    /\ RunStart
    /\ given \in {<<in>> : in \in LeanFeedInputs \cup UnknownTypeInputs}
    /\ engine = EbaySyncEngine
    /\ WebIdle
    /\ other = <<>>

NextTyped ==
    \/ Download({given[1]})
    \/ FetchPage(PairPageAnswers(page, Len(all_items)))
    \/ DiffStep
    \/ UpdateBatch(LeanUpdateAnswers(Len(CurrentBatch)))
    \/ UpdateReturn
    \/ Complete

SpecTyped == InitTyped /\ [][NextTyped]_vars

(***************************************************************************)
(* The web application (main.py): create_account and create_feed of one    *)
(* user.  The endpoints are plain functions, which the framework runs in    *)
(* its thread pool, each with a database session of its own; a handler      *)
(* counts the active rows, compares the count with the limit of the plan,   *)
(* and adds and commits a row.                                              *)
(***************************************************************************)
\* current_user.max_accounts / current_user.max_feeds
Limit(kind) == IF kind = "account" THEN max_accounts ELSE max_feeds

\* the active rows of the table the handler works on
Rows(kind) == IF kind = "account" THEN db.accounts ELSE db.feeds

InitWeb ==
    /\ RunStart
    /\ given = <<>>
    /\ engine = EbaySyncEngine
    /\ other = <<>>
    /\ db \in [accounts : 0..max_accounts, feeds : 0..max_feeds]
    /\ handlers \in [1..MaxHandlers ->
                        [kind : {"account", "feed"}, at : {"start"},
                         existing_count : {0}]]

\* existing_count = db.query(...).filter(user_id, is_active == True).count()
CountActive(h) ==
    /\ handlers[h].at = "start"
    /\ handlers' = [handlers EXCEPT ![h].existing_count = Rows(handlers[h].kind),
                                    ![h].at = "counted"]
    /\ UNCHANGED <<db, run_vars, given, engine, other>>

\* if existing_count >= limit: raise HTTPException(403); else
\* db.add(row); db.commit()
CheckAndCommit(h) ==
    /\ handlers[h].at = "counted"
    /\ IF handlers[h].existing_count >= Limit(handlers[h].kind)
       THEN /\ handlers' = [handlers EXCEPT ![h].at = "rejected"]
            /\ UNCHANGED db
       ELSE /\ handlers' = [handlers EXCEPT ![h].at = "created"]
            /\ db' = IF handlers[h].kind = "account"
                     THEN [db EXCEPT !.accounts = @ + 1]
                     ELSE [db EXCEPT !.feeds = @ + 1]
    /\ UNCHANGED <<run_vars, given, engine, other>>

NextWeb ==
    \/ \E h \in DOMAIN handlers : CountActive(h)
    \/ \E h \in DOMAIN handlers : CheckAndCommit(h)

SpecWeb == InitWeb /\ [][NextWeb]_vars

(***************************************************************************)
(* Properties.                                                              *)
(***************************************************************************)
Last(seq) == seq[Len(seq)]

RECURSIVE Flatten(_)
Flatten(seqs) == IF seqs = <<>> THEN <<>> ELSE Head(seqs) \o Flatten(Tail(seqs))

\* the diff of this run has been computed and the run has not failed
DiffDone ==
    \/ pc \in {"updating", "finishing"}
    \/ pc = "returned" /\ Last(returned).status = "completed"

\* the positions of the listings whose SKU the stock map lacks
UnmatchedPositions ==
    {k \in 1..Len(all_items) : all_items[k].sku \notin DOMAIN supplier_stock}

\* C1: run_sync never lets an exception escape: whatever the feed, the
\* listing pages and the batch answers are, the run is never left by an
\* exception, it goes on until it returns, and it returns exactly one record,
\* whose status is 'completed' or 'failed'.
C1_NoExceptionEscapes ==
    /\ pc # "escaped"
    /\ pc = "returned" =>
         /\ Len(returned) = 1
         /\ returned[1].status \in {"completed", "failed"}
    /\ pc # "returned" =>
         /\ returned = <<>>
         /\ ENABLED Next

\* a run whose second listing page failed has returned its one record
C1_Witness ==
    /\ pc = "returned"
    /\ page_requests = 2
    /\ Len(returned) = 1
    /\ returned[1].status = "failed"
    /\ returned[1].error_message = "ParseError"

\* C2: batch failure isolation: a batch whose remote call raises adds its
\* full size to failed and nothing to succeeded, and the loop goes on with
\* the next batch; at the end every batch was submitted once, in order, and
\* 9 updates whose middle batch raises while the others succeed give
\* failed = 4, succeeded = 5.
C2_RaiseStep ==
    (pc = "updating" /\ Len(outcomes') = Len(outcomes) + 1
        /\ Last(outcomes').exc # NoExc)
    => /\ pc' = "updating"
       /\ requests' = Append(requests, SubSeq(updates_needed, i + 1,
                                              Min(i + 4, Len(updates_needed))))
       /\ total_failed' = total_failed + Len(Last(requests'))
       /\ total_success' = total_success
       /\ i' = i + 4
       /\ updates_needed' = updates_needed

C2_AllSubmitted ==
    pc = "finishing" =>
      /\ Len(requests) = Len(outcomes)
      /\ Flatten(requests) = updates_needed
      /\ (/\ Len(updates_needed) = 9
          /\ outcomes[1] = UpdateAnswer(NoExc, "Success", 4)
          /\ outcomes[2].exc # NoExc
          /\ outcomes[3] = UpdateAnswer(NoExc, "Success", 1))
         => /\ total_failed = 4
            /\ total_success = 5
            /\ Len(requests) = 3

\* C2: every step of a raising batch is isolated as above, and at the end
\* every batch was submitted once, in order.
C2_BatchFailureIsolation == [][C2_RaiseStep]_vars /\ [] C2_AllSubmitted

\* 9 updates, the middle batch raised, the third batch was still sent
C2_Witness ==
    /\ pc = "finishing"
    /\ Len(updates_needed) = 9
    /\ outcomes[1] = UpdateAnswer(NoExc, "Success", 4)
    /\ outcomes[2].exc = "ConnectionError"
    /\ outcomes[3] = UpdateAnswer(NoExc, "Success", 1)
    /\ Len(requests) = 3
    /\ Len(requests[3]) = 1
    /\ total_failed = 4

\* the stages of run_sync after the listing fetch has succeeded
PostFetch == {"diffing", "updating", "finishing"}

\* C3: updater failures never fail the run: once the download and the fetch
\* have succeeded, every step stays in the diff/update stages or returns the
\* 'completed' record, whatever the batches answer; their failures show only
\* in items_failed.
C3_Step ==
    pc \in PostFetch
    => /\ pc' \in PostFetch \cup {"returned"}
       /\ pc' = "returned" =>
            /\ Last(returned').status = "completed"
            /\ Last(returned').items_failed = total_failed
            /\ Last(returned').error_message = None

\* C3: no step after the fetch leads anywhere but to the diff/update stages
\* or to the 'completed' record.
C3_UpdaterNeverFailsRun == [][C3_Step]_vars

\* both batches of a run of 5 updates raised and the run completed
C3_Witness ==
    /\ pc = "returned"
    /\ Len(outcomes) = 2
    /\ outcomes[1].exc # NoExc
    /\ outcomes[2].exc # NoExc
    /\ returned[1].status = "completed"
    /\ returned[1].items_failed = 5
    /\ returned[1].items_updated = 0

\* C4: on the failure path (the download or a listing page raises) run_sync
\* returns 'failed' with every count 0 and an error message, also when
\* listing pages were fetched before the failure.
C4_Step ==
    (pc \in {"start", "fetching"} /\ pc' \notin {"fetching", "diffing"})
    => /\ pc' = "returned"
       /\ returned' = << [status |-> "failed",
                          total_listings_checked |-> 0,
                          items_updated |-> 0,
                          items_failed |-> 0,
                          items_out_of_stock |-> 0,
                          unmatched_skus |-> 0,
                          error_message |-> returned'[1].error_message] >>
       /\ returned'[1].error_message # None

\* C4: every step that fails the download or the fetch returns the failed
\* record with all counts 0 and an error message.
C4_FailedResultIsZero == [][C4_Step]_vars

\* the second page failed after the first one brought listings
C4_Witness ==
    /\ pc = "returned"
    /\ returned[1].status = "failed"
    /\ page_requests = 2
    /\ Len(all_items) > 0
    /\ returned[1].total_listings_checked = 0

\* C5: a listing whose SKU the stock map lacks is in no pending update and in
\* no update request, and is counted once in unmatched_skus; the new quantity
\* of every pending update is the stock map's value for its SKU.
C5_UnmatchedNeverUpdated ==
    DiffDone =>
      /\ \A k \in 1..Len(updates_needed) :
           /\ updates_needed[k].sku \in DOMAIN supplier_stock
           /\ updates_needed[k].new_qty = supplier_stock[updates_needed[k].sku]
      /\ \A b \in 1..Len(requests) : \A k \in 1..Len(requests[b]) :
           requests[b][k].sku \in DOMAIN supplier_stock
      /\ Len(unmatched_skus) = Cardinality(UnmatchedPositions)
      /\ \A k \in UnmatchedPositions :
           \A u \in 1..Len(updates_needed) :
             updates_needed[u].sku # all_items[k].sku
      /\ pc = "returned" =>
           returned[1].unmatched_skus = Cardinality(UnmatchedPositions)

\* an unmatched listing next to a listing that was updated
C5_Witness ==
    /\ pc = "returned"
    /\ returned[1].status = "completed"
    /\ Len(all_items) = 2
    /\ all_items[1].sku \notin DOMAIN supplier_stock
    /\ all_items[1].current_qty = 2
    /\ Len(updates_needed) = 1
    /\ Len(requests) = 1
    /\ returned[1].unmatched_skus = 1

\* the listing a pending update was made from
ListingOf(u) == [item_id |-> u.item_id, sku |-> u.sku, current_qty |-> u.old_qty]

\* C6: a pending update is emitted for a listing iff its SKU is in the stock
\* map and the mapped quantity differs from the listing's current quantity;
\* the updates keep the order of their listings: the listings the updates
\* were made from are exactly the sub-sequence of such listings.
C6_DiffIffAndOrder ==
    DiffDone =>
      LET Differs(l) == /\ l.sku \in DOMAIN supplier_stock
                        /\ supplier_stock[l.sku] # l.current_qty
      IN  [k \in 1..Len(updates_needed) |-> ListingOf(updates_needed[k])]
            = SelectSeq(all_items, Differs)

\* two listings fetched as item 2, item 1: one restocked, one taken out of
\* stock, updated in that order
C6_Witness ==
    /\ pc = "updating"
    /\ Len(all_items) = 2
    /\ Len(updates_needed) = 2
    /\ updates_needed[1].item_id = 2
    /\ updates_needed[1].old_qty = 0
    /\ updates_needed[1].new_qty = 1
    /\ updates_needed[2].item_id = 1
    /\ updates_needed[2].new_qty = 0

\* C7: the batches of update_ebay_quantities hold 1 to 4 updates each, are
\* consecutive slices of the pending updates in their order, and together
\* hold every update once: n updates make ceil(n/4) requests.
C7_BatchPartition ==
    /\ \A b \in 1..Len(requests) : Len(requests[b]) \in 1..4
    /\ pc = "updating" =>
         Flatten(requests) = SubSeq(updates_needed, 1, Min(i, Len(updates_needed)))
    /\ pc = "finishing" =>
         /\ Flatten(requests) = updates_needed
         /\ Len(requests) = (Len(updates_needed) + 3) \div 4

\* 9 updates went out as batches of 4, 4 and 1
C7_Witness ==
    /\ pc = "finishing"
    /\ Len(updates_needed) = 9
    /\ Len(requests) = 3
    /\ Len(requests[1]) = 4
    /\ Len(requests[2]) = 4
    /\ requests[3] = << updates_needed[9] >>

\* a step of the batch loop that sent a batch and got its answer
BatchStep == pc = "updating" /\ Len(outcomes') = Len(outcomes) + 1

\* C8 as stated: a batch of size b whose answer is Success or Warning with k
\* entries adds k to succeeded and b - k to failed; any other Ack, or a
\* raising call, adds 0 and b.
C8_StepAsStated ==
    BatchStep =>
      LET b == Len(Last(requests'))
          a == Last(outcomes')
      IN  IF a.exc = NoExc /\ a.Ack \in {"Success", "Warning"}
          THEN /\ total_success' = total_success + a.InventoryStatus
               /\ total_failed' = total_failed + (b - a.InventoryStatus)
          ELSE /\ total_success' = total_success
               /\ total_failed' = total_failed + b

\* C8 as stated, for every step of the batch loop (b - k added to failed).
C8_Original == [][C8_StepAsStated]_vars

\* C8 (amended): ... adds k to succeeded and max(0, b - k) to failed: an
\* answer with more entries than the batch has items adds nothing to failed;
\* any other Ack, or a raising call, adds 0 and b.
C8_StepAmended ==
    BatchStep =>
      LET b == Len(Last(requests'))
          a == Last(outcomes')
      IN  IF a.exc = NoExc /\ a.Ack \in {"Success", "Warning"}
          THEN /\ total_success' = total_success + a.InventoryStatus
               /\ total_failed' = total_failed + Max(0, b - a.InventoryStatus)
          ELSE /\ total_success' = total_success
               /\ total_failed' = total_failed + b

\* C8 (amended), for every step of the batch loop (max(0, b - k) added to
\* failed).
C8_PerBatchAccounting == [][C8_StepAmended]_vars

\* a batch of 4 answered Warning with 2 entries, then a batch of 1 answered
\* Failure with 1 entry: 2 succeeded, 3 failed
C8_Witness ==
    /\ pc = "finishing"
    /\ Len(updates_needed) = 5
    /\ outcomes = << UpdateAnswer(NoExc, "Warning", 2),
                     UpdateAnswer(NoExc, "Failure", 1) >>
    /\ total_success = 2
    /\ total_failed = 3

\* C9: the page requested is always the number of requests sent plus one
\* (1, 2, 3, ... without gaps); after a page that was parsed, the fetch stops
\* if the page number has reached the reported page count and has-more is
\* false, whatever the page held; below the ceiling of 500 it goes on to the
\* next page if has-more is true or the page number is below the count.
C9_Step ==
    (pc = "fetching" /\ pc' \in {"fetching", "diffing"})
    => LET lp == last_page'[1]
       IN  /\ page = page_requests + 1
           /\ page_requests' = page_requests + 1
           /\ lp.page = page
           /\ (lp.page >= lp.total_pages /\ ~lp.has_more) => pc' = "diffing"
           /\ (page < 500 /\ (lp.has_more \/ lp.page < lp.total_pages))
                => /\ pc' = "fetching"
                   /\ page' = page + 1

\* C9: every step of the fetch loop requests the next page and stops or goes
\* on as above.
C9_PaginationTermination == [][C9_Step]_vars

\* the fetch stopped after page 3 of 3, an empty page without has-more
C9_Witness ==
    /\ pc = "diffing"
    /\ page_requests = 3
    /\ last_page = << [page |-> 3, total_pages |-> 3, has_more |-> FALSE] >>
    /\ all_items = <<>>

\* C10: at most 500 pages are requested whatever the server answers; after
\* the 500th page was parsed the run is at the diff, not failed, and goes on
\* to a 'completed' result with the listings fetched.
C10_PageCeiling ==
    /\ page_requests <= 500
    /\ pc = "fetching" => page_requests < 500
    /\ (last_page # <<>> /\ last_page[1].page = 500) =>
         /\ pc = "diffing"
         /\ returned = <<>>
    /\ (pc = "returned" /\ returned[1].status = "completed") =>
         returned[1].total_listings_checked = Len(all_items)

\* 500 pages were requested from a server that always reported more, and the
\* run completed with the 5 listings it had fetched
C10_Witness ==
    /\ pc = "returned"
    /\ page_requests = 500
    /\ returned[1].status = "completed"
    /\ returned[1].total_listings_checked = 5
    /\ returned[1].items_updated = 5

\* a step that sends one GetSellerList request and handles its answer
FetchStep == pc = "fetching" /\ page_requests' = page_requests + 1

\* C11: a failed page fetch aborts the whole fetch and is not retried.  The
\* pages are requested one by one in order, page p by the p-th request; when
\* the request for page p fails (an exception of the transport or of the
\* parser, or an Ack that is rejected) the run returns the 'failed' record,
\* in which the listings of the pages before p do not count, without having
\* sent an update; after that no request is sent any more, so page p is not
\* requested again and no page after p is requested.
C11_Step ==
    /\ FetchStep => last_answer'[1].page = page_requests'
    /\ (FetchStep /\ (\/ last_answer'[1].exc # NoExc
                      \/ last_answer'[1].Ack \notin {"Success", "Warning"})) =>
         /\ pc' = "returned"
         /\ Len(returned') = 1
         /\ returned'[1].status = "failed"
         /\ returned'[1].total_listings_checked = 0
         /\ requests' = <<>>
    /\ pc = "returned" => page_requests' = page_requests

C11_Settled ==
    /\ pc = "fetching" => page = page_requests + 1
    /\ pc = "returned" => ~ENABLED Next

\* C11, as a property of every step and of every state of a run
C11_FailedPageAborts == [][C11_Step]_vars /\ [] C11_Settled

\* page 2 was rejected after page 1 had brought a listing: two requests were
\* sent and the run has failed with no listing counted
C11_Witness ==
    /\ pc = "returned"
    /\ last_answer = << [page |-> 2, exc |-> NoExc, Ack |-> "Failure"] >>
    /\ page_requests = 2
    /\ Len(all_items) = 1
    /\ returned[1].status = "failed"
    /\ returned[1].total_listings_checked = 0

\* C12: the Ack of a listing page is validated.  An answer that was received
\* and parsed is accepted exactly when its Ack is 'Success' or 'Warning':
\* then the page is parsed, its listings are appended to those fetched so
\* far and the run goes on; with any other Ack, a missing one included, the
\* fetch raises, the run fails with that error and no listing is added.
C12_Step ==
    (FetchStep /\ last_answer'[1].exc = NoExc) =>
        IF last_answer'[1].Ack \in {"Success", "Warning"}
        THEN /\ pc' \in {"fetching", "diffing"}
             /\ returned' = returned
             /\ last_page' # <<>> /\ last_page'[1].page = page
             /\ Len(all_items') >= Len(all_items)
             /\ SubSeq(all_items', 1, Len(all_items)) = all_items
        ELSE /\ pc' = "returned"
             /\ returned'[1].status = "failed"
             /\ returned'[1].error_message = "RuntimeError"
             /\ all_items' = all_items
             /\ last_page' = last_page

C12_AckValidation == [][C12_Step]_vars

\* a page answered with Ack 'Warning' was accepted and brought two listings
C12_Witness ==
    /\ pc = "diffing"
    /\ last_answer = << [page |-> 1, exc |-> NoExc, Ack |-> "Warning"] >>
    /\ Len(all_items) = 2

\* the stage of the run: the download is "Normalizing", the page loop
\* "Fetching", the diff loop "Diffing", step 4 of run_sync up to the return
\* statement "Updating"; a returned run is "Completed" or "Failed"
Stage ==
    CASE pc = "start"    -> "Normalizing"
      [] pc = "fetching" -> "Fetching"
      [] pc = "diffing"  -> "Diffing"
      [] pc \in {"updating", "finishing"} -> "Updating"
      [] pc = "returned" -> IF Last(returned).status = "completed"
                            THEN "Completed" ELSE "Failed"
      [] OTHER           -> "Escaped"

StageMoves ==
    {<<"Normalizing", "Fetching">>, <<"Fetching", "Diffing">>,
     <<"Diffing", "Updating">>, <<"Updating", "Completed">>,
     <<"Normalizing", "Failed">>, <<"Fetching", "Failed">>}

\* C13: the stages of a run follow each other in a strict order.  A step
\* stays in its stage or moves along Normalizing -> Fetching -> Diffing ->
\* Updating -> Completed, or to Failed from Normalizing or Fetching, so no
\* stage is entered twice; the stock map is written only while Normalizing,
\* a page is requested only while Fetching (after the download is done), the
\* pending updates are computed only while Diffing (after the last page) and
\* an update request is sent only while Updating.
C13_Step ==
    /\ Stage' = Stage \/ <<Stage, Stage'>> \in StageMoves
    /\ Stage \in {"Normalizing", "Diffing"} => Stage' # Stage
    /\ supplier_stock' # supplier_stock => Stage = "Normalizing"
    /\ page_requests' # page_requests => Stage = "Fetching"
    /\ all_items' # all_items => Stage = "Fetching"
    /\ <<updates_needed, unmatched_skus>>' # <<updates_needed, unmatched_skus>> =>
         Stage = "Diffing"
    /\ requests' # requests => Stage = "Updating"

C13_StageOrder == [][C13_Step]_vars

\* a run that went through every stage: a feed with an entry, two pages,
\* one batch
C13_Witness ==
    /\ pc = "returned"
    /\ returned[1].status = "completed"
    /\ supplier_stock # EmptyMap
    /\ page_requests = 2
    /\ Len(requests) = 1

\* C14: the record of a run that did not fail.  Its status is 'completed'
\* and its error_message is null; total_listings_checked is the number of
\* listings fetched, unmatched_skus the number of listings whose SKU the
\* stock map lacks, items_updated and items_failed are the two counters of
\* the updater, and items_out_of_stock is the number of pending updates
\* whose new quantity is 0, whatever became of their remote update.
C14_CompletedRecord ==
    (pc = "returned" /\ returned[1].status # "failed") =>
        /\ returned[1].status = "completed"
        /\ returned[1].error_message = None
        /\ returned[1].total_listings_checked = Len(all_items)
        /\ returned[1].unmatched_skus = Cardinality(UnmatchedPositions)
        /\ returned[1].items_updated = total_success
        /\ returned[1].items_failed = total_failed
        /\ returned[1].items_out_of_stock =
             Cardinality({k \in 1..Len(updates_needed) : updates_needed[k].new_qty = 0})
        /\ updates_needed = Diff(all_items, supplier_stock).updates

\* two listings, one to restock and one to take out of stock; the one batch
\* raised, both updates failed, and the record still counts one listing
\* out of stock
C14_Witness ==
    /\ pc = "returned"
    /\ returned[1].status = "completed"
    /\ returned[1].total_listings_checked = 2
    /\ returned[1].unmatched_skus = 0
    /\ returned[1].items_updated = 0
    /\ returned[1].items_failed = 2
    /\ returned[1].items_out_of_stock = 1
    /\ outcomes[1].exc # NoExc

\* the feed of the run and the arguments it was called with
GivenFeedType == given[1].feed_type
GivenMapping  == given[1].column_mapping
GivenRows     == given[1].resp.rows

\* the download of the given feed has returned a stock map
Normalized == given # <<>> /\ pc = "fetching"

\* the column a custom feed is read from for the key of the mapping: the
\* column the mapping names, the stated default when the mapping is null,
\* empty or has no such key
MappedColumn(key, default) ==
    IF GivenMapping = <<>> THEN default
    ELSE Get(GivenMapping[1], key, default)

\* the mapping leaves a column name to its default
Unmapped ==
    \/ GivenMapping = <<>>
    \/ "sku_column" \notin DOMAIN GivenMapping[1]
    \/ "quantity_column" \notin DOMAIN GivenMapping[1]

\* C15: a custom feed that the normalizer has read with a mapping that is
\* null, empty or lacks a key has its SKU read from the column "SKU" and its
\* quantity from the column "Quantity" where the mapping names none: the map
\* has one entry, 0 or 1, for every row whose SKU is not empty.
C15_CustomDefaults ==
    (Normalized /\ GivenFeedType = "custom" /\ Unmapped) =>
        /\ DOMAIN supplier_stock =
             {strip(Get(GivenRows[k], MappedColumn("sku_column", "SKU"), "")) :
                 k \in 1..Len(GivenRows)} \ {""}
        /\ \A sku \in DOMAIN supplier_stock : supplier_stock[sku] \in {0, 1}

\* the Item elements of the page the catalogue answered with
GivenItems == given[1].Items

\* C17: only active listings are fetched and their quantity is clamped.
\* Every listing the fetcher returns comes from an Item of the page answer
\* whose ListingStatus is 'Active', with the ItemID and the trimmed SKU of
\* that Item, and its current quantity is max(0, Quantity - QuantitySold),
\* never negative; the Items that are not active bring no listing.
C17_ActiveAndClamped ==
    (pc = "diffing" /\ given # <<>>) =>
        /\ \A k \in 1..Len(all_items) :
             /\ all_items[k].current_qty >= 0
             /\ \E j \in 1..Len(GivenItems) :
                  LET item == GivenItems[j]
                      left == Get(item, "Quantity", 0) - Get(item, "QuantitySold", 0)
                  IN  /\ "ListingStatus" \in DOMAIN item
                      /\ item.ListingStatus = "Active"
                      /\ "ItemID" \in DOMAIN item
                      /\ all_items[k].item_id = item.ItemID
                      /\ all_items[k].sku = strip(Get(item, "SKU", ""))
                      /\ all_items[k].current_qty = IF left > 0 THEN left ELSE 0
        /\ Len(all_items) <=
             Cardinality({j \in 1..Len(GivenItems) :
                             Get(GivenItems[j], "ListingStatus", "") = "Active"})

\* a page with a listing that ended and an active one that sold 5 of its 3:
\* the one listing fetched has quantity 0
C17_Witness ==
    /\ pc = "diffing"
    /\ given # <<>>
    /\ GivenItems = << [ItemID |-> 2, SKU |-> " B ", ListingStatus |-> "Active",
                        Quantity |-> 3, QuantitySold |-> 5] >>
    /\ all_items = << [item_id |-> 2, sku |-> "B", current_qty |-> 0] >>

\* the column the SKU of a row is read from
SkuColumn ==
    CASE GivenFeedType = "azuregreen" -> "NUMBER"
      [] GivenFeedType = "diecast"    -> "Product ID"
      [] OTHER                        -> MappedColumn("sku_column", "SKU")

\* the SKU field of the row is empty or holds white space only
EmptySku(row) ==
    LET cell == Get(row, SkuColumn, "")
    IN  cell # None /\ strip(cell) = ""

\* the given feed without its rows of empty SKU
RowsWithSku == SelectSeq(GivenRows, LAMBDA row : ~EmptySku(row))

\* the download of the given feed has ended, with a map or with an exception
Downloaded == given # <<>> /\ pc # "start" /\ given[1].resp.exc = NoExc

\* C18: a row whose SKU is empty or blank is skipped whatever its other
\* columns hold: it adds no entry to the stock map and changes none, so the
\* download of a feed ends as the download of the same feed without these
\* rows does, with the same stock map.
C18_EmptySkuSkipped ==
    Downloaded =>
        LET skipped == download_supplier_stock([exc |-> NoExc, rows |-> RowsWithSku],
                                               GivenFeedType, GivenMapping)
        IN  IF skipped.exc = NoExc
            THEN pc = "fetching" /\ supplier_stock = skipped.stock
            ELSE pc = "returned" /\ returned[1].error_message = skipped.exc

\* every cell of the given feed is a string: no line is shorter than the header
NoShortRow ==
    \A k \in 1..Len(GivenRows) : \A col \in DOMAIN GivenRows[k] : GivenRows[k][col] # None

\* the UNITS cells that read as a number whose integer part is above 0
PositiveUnits == {"5", "3", "1", "2.7", " 3 ", "inf"}

\* the availability the rule of the azuregreen feed gives a row
AzureGreenAvailability(row) ==
    IF strip(Get(row, "CANTSELL", "0")) = "1" THEN 0
    ELSE IF Get(row, "UNITS", "0") \in PositiveUnits THEN 1
    ELSE 0

\* C19: the azuregreen feed.  Every row with a non-empty NUMBER gets the
\* availability 0 when its CANTSELL is "1", whatever its UNITS, and
\* otherwise 1 when its UNITS is a number whose integer part is above 0 and
\* 0 when it is not above 0 or not a number; a DISCONT column changes
\* nothing.  The stock map holds that value for the last row of each SKU.
C19_AzureGreenRule ==
    (Downloaded /\ GivenFeedType = "azuregreen" /\ NoShortRow) =>
        /\ pc = "fetching"
        /\ \A k \in 1..Len(GivenRows) :
             LET sku == strip(Get(GivenRows[k], "NUMBER", ""))
             IN  (/\ sku # ""
                  /\ \A j \in (k + 1)..Len(GivenRows) :
                        strip(Get(GivenRows[j], "NUMBER", "")) # sku) =>
                     /\ sku \in DOMAIN supplier_stock
                     /\ supplier_stock[sku] = AzureGreenAvailability(GivenRows[k])

\* the trimmed SKU of row k of the given feed
SkuOfRow(k) == strip(Get(GivenRows[k], SkuColumn, ""))

\* row k is the last row of the given feed that carries its SKU
LastOfItsSku(k) ==
    /\ SkuOfRow(k) # ""
    /\ \A j \in (k + 1)..Len(GivenRows) : SkuOfRow(j) # SkuOfRow(k)

\* C20: last row wins.  The stock map the normalizer returns for a feed of
\* one of the three feed types has exactly one entry for every distinct,
\* non-empty trimmed SKU of the feed, and the value of the entry is the
\* availability of the last row, in file order, that carries the SKU.
C20_LastRowWins ==
    (Normalized /\ GivenFeedType \in {"azuregreen", "diecast", "custom"}) =>
        /\ DOMAIN supplier_stock = {SkuOfRow(k) : k \in 1..Len(GivenRows)} \ {""}
        /\ \A k \in 1..Len(GivenRows) :
             LastOfItsSku(k) =>
                 supplier_stock[SkuOfRow(k)] =
                     FeedRow(EmptyMap, GivenRows[k], GivenFeedType,
                             GivenMapping).stock[SkuOfRow(k)]

\* What a run alone does with a stock map, a list of listings and a list of
\* batch answers: the batches it sends, the counters it ends with and the
\* record it returns.
RECURSIVE BatchesOf(_)
BatchesOf(updates) ==
    IF updates = <<>> THEN <<>>
    ELSE << Slice(updates, 0, batch_size) >>
         \o BatchesOf(SubSeq(updates, batch_size + 1, Len(updates)))

RECURSIVE Tally(_, _, _)
Tally(batches, answers, t) ==
    IF batches = <<>> \/ answers = <<>> THEN t
    ELSE LET r == update_batch(Head(batches), Head(answers))
         IN  Tally(Tail(batches), Tail(answers),
                   IF r.exc # NoExc
                   THEN [success |-> t.success,
                         failed  |-> FailedOnRaise(t.failed, Head(batches))]
                   ELSE [success |-> t.success + r.val,
                         failed  |-> FailedAfter(t.failed, r.val, Head(batches))])

AloneRecord(run) ==
    LET d == Diff(run.all_items, run.supplier_stock)
        t == Tally(BatchesOf(d.updates), run.outcomes, [success |-> 0, failed |-> 0])
    IN  CompletedResult(run.all_items, t.success, t.failed, d.updates, d.unmatched)

\* the run has sent the requests and, once returned, has the result of a
\* run alone on its own feed, listings and batch answers
AsAlone(run) ==
    LET d == Diff(run.all_items, run.supplier_stock)
    IN  /\ Len(run.outcomes) = Len(run.requests)
        /\ run.page_requests <= 2
        /\ run.pc \in {"start", "fetching", "diffing"} => run.requests = <<>>
        /\ run.pc \in {"updating", "finishing"} =>
             /\ run.updates_needed = d.updates
             /\ run.requests = SubSeq(BatchesOf(d.updates), 1, Len(run.requests))
        /\ run.pc = "returned" =>
             /\ Len(run.returned) = 1
             /\ IF run.returned[1].status = "completed"
                THEN /\ run.requests = BatchesOf(d.updates)
                     /\ run.returned[1] = AloneRecord(run)
                ELSE /\ run.requests = <<>>
                     /\ run.returned[1] = FailedResult(run.returned[1].error_message)

\* C16: runs that are interleaved on one engine are independent.  No step
\* of a run writes the config or the batch size of the engine, a step of one
\* run leaves the locals of the other run as they are, and each of the
\* two runs sends the requests and returns the record of a run alone on the
\* same feed and the same remote answers.
C16_Step ==
    /\ engine' = engine
    /\ \/ other' = other
       \/ other' = <<ThisRun>> /\ ThisRun' = other[1]

C16_Independent ==
    /\ engine = EbaySyncEngine
    /\ other # <<>> => AsAlone(ThisRun) /\ AsAlone(other[1])

C16_RunsIndependent == [][C16_Step]_vars /\ [] C16_Independent

\* both runs are between the first and the second batch of their five
\* pending updates
C16_Witness ==
    /\ other # <<>>
    /\ pc = "updating" /\ Len(updates_needed) = 5 /\ Len(requests) = 1
    /\ other[1].pc = "updating"
    /\ Len(other[1].updates_needed) = 5
    /\ Len(other[1].requests) = 1
    /\ outcomes # other[1].outcomes

\* the diff of the run after the first one has been computed
SecondDiffDone == other # <<>> /\ pc # "diffing"

\* C21: the diff is deterministic and has no side effect.  The step that
\* computes it leaves the listings and the stock map as they were; and the
\* diff of a second run on the same listings and the same stock map is the
\* same sequence of pending updates, in the same order, with the same
\* unmatched SKUs, as the diff of the first run.
C21_Step ==
    pc = "diffing" =>
        /\ all_items' = all_items
        /\ supplier_stock' = supplier_stock
        /\ updates_needed' = Diff(all_items, supplier_stock).updates

C21_Same ==
    (/\ SecondDiffDone
     /\ all_items = other[1].all_items
     /\ supplier_stock = other[1].supplier_stock) =>
        /\ updates_needed = other[1].updates_needed
        /\ unmatched_skus = other[1].unmatched_skus
        /\ all_items = given[1].listings
        /\ supplier_stock = given[1].stock

C27_Convergence ==
    (/\ SecondDiffDone
     /\ all_items = Applied(other[1].all_items, other[1].updates_needed)
     /\ supplier_stock = other[1].supplier_stock) =>
        /\ updates_needed = <<>>
        /\ requests = <<>>
        /\ Len(unmatched_skus) = Len(other[1].unmatched_skus)

\* the first run queued one update and had one unmatched listing; the run
\* after it, on the updated catalogue, has completed without an update
C27_Witness ==
    /\ other # <<>>
    /\ pc = "returned"
    /\ Len(other[1].updates_needed) = 1
    /\ all_items # other[1].all_items
    /\ updates_needed = <<>>
    /\ Len(unmatched_skus) = 1
    /\ returned[1].items_updated = 0

\* the updater has returned its two counters to run_sync
UpdaterReturned == pc = "finishing"

\* the result entries the accepted answers carried beyond the size of
\* their batch
RECURSIVE Excess(_, _)
Excess(batches, answers) ==
    IF batches = <<>> \/ answers = <<>> THEN 0
    ELSE (IF /\ Head(answers).exc = NoExc
             /\ Head(answers).Ack \in {"Success", "Warning"}
             /\ Head(answers).InventoryStatus > Len(Head(batches))
          THEN Head(answers).InventoryStatus - Len(Head(batches)) ELSE 0)
         + Excess(Tail(batches), Tail(answers))

\* C22 as stated: whatever the batch answers are, the counters the updater
\* returns add up to the number of pending updates.
C22_Original ==
    UpdaterReturned => items_updated + items_failed = Len(updates_needed)

\* C22: the counters the updater returns add up to the number of pending
\* updates plus the result entries that accepted answers carried beyond the
\* size of their batch; they add up to the number of pending updates when
\* no answer carries more entries than its batch has items, and never to
\* less.
C22_CounterConservation ==
    UpdaterReturned =>
        /\ items_updated + items_failed =
             Len(updates_needed) + Excess(requests, outcomes)
        /\ items_updated + items_failed >= Len(updates_needed)
        /\ items_failed <= Len(updates_needed)

\* nine updates in three batches: five entries for the first batch of four,
\* an exception for the second, one entry for the last; 6 + 4 for 9 updates
C22_Witness ==
    /\ UpdaterReturned
    /\ Len(updates_needed) = 9
    /\ outcomes[1].InventoryStatus = 5
    /\ outcomes[2].exc # NoExc
    /\ items_updated = 6
    /\ items_failed = 4

\* the run has returned the failed record
RunFailed == pc = "returned" /\ Last(returned).status = "failed"

\* C23: a failed run has sent no quantity update.  When run_sync has
\* returned 'failed' no ReviseInventoryStatus request was sent in the run;
\* and from the first update request on, whatever the answers are, the run
\* does not fail: it is in the updater or past it, and when it has returned
\* its status is 'completed'.
C23_State ==
    /\ RunFailed => requests = <<>> /\ outcomes = <<>>
    /\ requests # <<>> =>
         /\ pc \in {"updating", "finishing", "returned"}
         /\ pc = "returned" => returned[1].status = "completed"

C23_Step == (requests # <<>> \/ requests' # <<>>) => ~RunFailed'

C23_FailedSentNothing == [] C23_State /\ [][C23_Step]_vars

\* the only batch of the run was answered by an exception and the run has
\* completed
C23_Witness ==
    /\ pc = "returned"
    /\ Len(requests) = 1
    /\ outcomes[1].exc = "ConnectionError"
    /\ returned[1].status = "completed"
    /\ returned[1].items_failed = Len(requests[1])

\* C24: quantities are binary.  Every value of the supplier stock map is 0
\* or 1, whatever the feed type, and so is the new quantity of every pending
\* update and of every update sent; a matched listing whose available
\* quantity is above 1 and whose supplier availability is 1 has a pending
\* update that sets it to 1.
C24_BinaryQuantities ==
    /\ \A sku \in DOMAIN supplier_stock : supplier_stock[sku] \in {0, 1}
    /\ \A k \in 1..Len(updates_needed) : updates_needed[k].new_qty \in {0, 1}
    /\ \A b \in 1..Len(requests) : \A k \in 1..Len(requests[b]) :
           requests[b][k].new_qty \in {0, 1}
    /\ DiffDone =>
         \A k \in 1..Len(all_items) :
            (/\ all_items[k].sku \in DOMAIN supplier_stock
             /\ supplier_stock[all_items[k].sku] = 1
             /\ all_items[k].current_qty > 1) =>
                \E u \in 1..Len(updates_needed) :
                    updates_needed[u] = [item_id |-> all_items[k].item_id,
                                         sku |-> all_items[k].sku,
                                         old_qty |-> all_items[k].current_qty,
                                         new_qty |-> 1]

\* a listing with 2 available and a supplier availability of 1 was sent an
\* update to 1
C24_Witness ==
    /\ pc = "returned"
    /\ Len(all_items) = 1
    /\ all_items[1].current_qty = 2
    /\ all_items[1].sku \in DOMAIN supplier_stock
    /\ supplier_stock[all_items[1].sku] = 1
    /\ requests = << << [item_id |-> all_items[1].item_id, sku |-> all_items[1].sku,
                          old_qty |-> 2, new_qty |-> 1] >> >>

\* the feed was downloaded and its type is none the normalizer knows
UnknownType ==
    /\ given # <<>>
    /\ given[1].resp.exc = NoExc
    /\ given[1].feed_type \notin {"azuregreen", "diecast", "custom"}

\* C25: a feed type the normalizer does not know is not an error.  When
\* the feed was downloaded, the normalizer returns the empty stock map
\* without raising; the run can fail only at a listing page, and otherwise
\* it completes with every listing unmatched, no pending update and no
\* update request.
C25_UnknownFeedType ==
    (UnknownType /\ pc # "start") =>
        /\ supplier_stock = EmptyMap
        /\ updates_needed = <<>>
        /\ requests = <<>>
        /\ pc \in {"fetching", "diffing", "finishing", "returned"}
        /\ pc = "returned" =>
             IF returned[1].status = "failed"
             THEN /\ last_answer # <<>>
                  /\ \/ last_answer[1].exc # NoExc
                     \/ last_answer[1].Ack \notin {"Success", "Warning"}
             ELSE /\ returned[1].status = "completed"
                  /\ returned[1].total_listings_checked = Len(all_items)
                  /\ returned[1].unmatched_skus = Len(all_items)
                  /\ returned[1].items_updated = 0
                  /\ returned[1].items_failed = 0
                  /\ returned[1].items_out_of_stock = 0

\* the feed type "AzureGreen" with a row for A: the run has completed with
\* its three listings of A unmatched
C25_Witness ==
    /\ UnknownType
    /\ given[1].feed_type = "AzureGreen"
    /\ given[1].resp.rows = << [NUMBER |-> "A", UNITS |-> "5", CANTSELL |-> "0"] >>
    /\ pc = "returned"
    /\ returned[1].status = "completed"
    /\ returned[1].total_listings_checked = 3
    /\ returned[1].unmatched_skus = 3

\* every listing is unmatched or has the quantity of the supplier already
NoDiscrepancy ==
    \A k \in 1..Len(all_items) :
        \/ all_items[k].sku \notin DOMAIN supplier_stock
        \/ supplier_stock[all_items[k].sku] = all_items[k].current_qty

\* C26: no discrepancy, no remote write.  When every listing is unmatched
\* or already has the supplier quantity, or there is no listing, the diff
\* queues nothing, the updater is skipped, no ReviseInventoryStatus request
\* is sent, and the run returns 'completed' with items_updated = 0,
\* items_failed = 0 and items_out_of_stock = 0.
C26_State ==
    (DiffDone /\ (NoDiscrepancy \/ updates_needed = <<>>)) =>
        /\ updates_needed = <<>>
        /\ NoDiscrepancy
        /\ requests = <<>>
        /\ pc \in {"finishing", "returned"}
        /\ pc = "returned" =>
             /\ returned[1].status = "completed"
             /\ returned[1].items_updated = 0
             /\ returned[1].items_failed = 0
             /\ returned[1].items_out_of_stock = 0

C26_Step ==
    (pc = "diffing" /\ NoDiscrepancy) => pc' = "finishing" /\ requests' = <<>>

C26_NoDiscrepancyNoWrite == [] C26_State /\ [][C26_Step]_vars

\* two listings, one unmatched and one that has the supplier quantity
\* already: the run has completed without a request
C26_Witness ==
    /\ pc = "returned"
    /\ Len(all_items) = 2
    /\ Len(unmatched_skus) = 1
    /\ supplier_stock # EmptyMap
    /\ NoDiscrepancy
    /\ requests = <<>>
    /\ returned[1].status = "completed"

\* C28: the limits of the plan hold in every state: a user has at most
\* max_accounts active eBay accounts and at most max_feeds active feeds,
\* also when several create requests of the user are handled at once.
C28_PlanLimit ==
    /\ db.accounts <= max_accounts
    /\ db.feeds <= max_feeds

====
